---------------------------- MODULE Spec2Model ----------------------------
(***************************************************************************)
(* Model of sync_diff_inspector/splitter/bucket.go: the BucketIterator.    *)
(* A producer goroutine (produceChunks) walks the histogram buckets of the *)
(* chosen index, merges them into ranges of about chunkSize rows, splits   *)
(* each range and sends the batches on chunksCh; a single consumer pulls   *)
(* chunks with Next.  Index keys are modelled as integers, a chunk covers  *)
(* the keys k with lower < k <= upper, and NoBound marks an absent bound.  *)
(***************************************************************************)
EXTENDS Integers, Sequences, FiniteSets

VARIABLES
    buckets,       \* s.buckets: sequence of [Count, LowerBound, UpperBound]
    chunkSizeArg,  \* the chunkSize argument of NewBucketIteratorWithCheckpoint
    chunkSize,     \* s.chunkSize
    startRange,    \* the startRange argument (nilRange when nil)
    chunksCh,      \* s.chunksCh: the buffered batches, oldest first
    closed,        \* whether close(s.chunksCh) has been executed
    errCh,         \* s.errCh: the buffered errors (capacity 1)
    chunks,        \* s.chunks: the consumer's current batch (<<>> is nil)
    nextChunk,     \* s.nextChunk
    pc,            \* position of produceChunks (or "new" before construction)
    i,             \* produceChunks: the loop variable i (0-based bucket index)
    latestCount,   \* produceChunks: latestCount
    lowerValues,   \* produceChunks: lowerValues (NoBound when len = 0)
    chunkID,       \* produceChunks: chunkID
    dbFailed,      \* a database call of produceChunks has failed
    panicked,      \* "" or the function whose panic ended the process
    sent,          \* history: every value sent on chunksCh, in order
    returned,      \* history: the result of every Next call, in order
    indices,       \* init: the candidates of dbutil.FindAllIndex, in order
    indexID,       \* s.indexID
    initErr,       \* the error NewBucketIteratorWithCheckpoint returned, or ""
    closeCalls,    \* history: the number of Close calls made
    asked,         \* history: the splitRangeByRandom calls, in order
    errSent        \* history: the number of sends on errCh

vars == <<buckets, chunkSizeArg, chunkSize, startRange, chunksCh, closed, errCh,
          chunks, nextChunk, pc, i, latestCount, lowerValues, chunkID,
          dbFailed, panicked, sent, returned, indices, indexID, initErr,
          closeCalls, asked, errSent>>

\* what construction reads and sets and nothing changes afterwards
construction == <<indices, indexID, initErr>>

-----------------------------------------------------------------------------
(* Bounds of the model *)

\* longest bucket list
MaxBuckets == 3

\* capacity of chunksCh in the model; the program's DefaultChannelBuffer is
\* 1024 (bucket.go:30), scaled down so that the producer does run into a full
\* queue
ChannelBuffer == 2

\* the most Close calls of a run
MaxCloseCalls == 1

\* longest list of candidate indexes
MaxIndexes == 2

\* the cumulative row counts a bucket may carry
CountValues == {0, 50, 100, 250, 400}

\* the chunk sizes a caller may request (<= 0 asks for the default)
ChunkSizeArgs == {0, 100}

\* the results of the live row count of the resume path
LiveCounts == {0, 50, 150}

-----------------------------------------------------------------------------
(* Data *)

NoBound == 0 - 1

\* the nil []*chunk.Range: both the sentinel batch and the initial s.chunks
Nil == <<>>

\* a nil *RangeInfo
nilRange == [IndexID |-> 0 - 1, BucketID |-> 0 - 1, Upper |-> NoBound]

\* bucket id (0-based) -> its bounds.  A bucket's lower bound is its smallest
\* key and its upper bound its largest, and buckets do not share keys.
LowerBoundOf(id) == 2 * id + 1
UpperBoundOf(id) == 2 * id + 2

MkBuckets(counts) ==
    [k \in 1..Len(counts) |->
        [Count |-> counts[k], LowerBound |-> LowerBoundOf(k - 1),
         UpperBound |-> UpperBoundOf(k - 1)]]

\* the index key space: one key below the first bucket, one above the last
MinKey == LowerBoundOf(0) - 1
MaxKeyOf(bs) == UpperBoundOf(Len(bs) - 1) + 1
KeysOf(bs) == MinKey..MaxKeyOf(bs)

\* buckets[id] with Go's 0-based index
BucketAt(bs, id) == bs[id + 1]

\* whether key k satisfies the chunk's bounds: lower < k (when present) and
\* k <= upper (when present)
InChunk(k, c) ==
    /\ (c.lower # NoBound => k > c.lower)
    /\ (c.upper # NoBound => k <= c.upper)

\* a chunk.Range as the consumer sees it
MkChunk(id, bucketID, lower, upper) ==
    [ID |-> id, BucketID |-> bucketID, lower |-> lower, upper |-> upper]

\* the chunk field of a Next result that carries no chunk
NilChunk == MkChunk(0 - 1, 0 - 1, NoBound, NoBound)

\* the result of one Next call: kind is "chunk", "nil" or "err"
Result(kind, c) == [kind |-> kind, chunk |-> c]

-----------------------------------------------------------------------------
(* Pure parts of init and produceChunks *)

\* splitter.SplitThreshold, the smallest range worth splitting
SplitThreshold == 1000

\* the divisor of init: "There are only 10k chunks at most"
MaxChunkNum == 10000

RECURSIVE SumCounts(_)
\* init, lines 131-134: cnt = cnt + bucket.Count over all buckets
SumCounts(bs) ==
    IF bs = <<>> THEN 0 ELSE Head(bs).Count + SumCounts(Tail(bs))

\* init, lines 130-140: the chunk size chosen when none is requested
DefaultChunkSize(bs) ==
    LET size == SumCounts(bs) \div MaxChunkNum
    IN  IF size < SplitThreshold THEN 2 * SplitThreshold ELSE size

\* init, lines 130-140: s.chunkSize after construction
InitChunkSize(arg, bs) ==
    IF arg <= 0 THEN DefaultChunkSize(bs) ELSE arg

\* a bucket that just fills a chunk is merged as well
MergeMoreInclusive(count, size) == count <= size

\* a comparison turned around
MergeMoreInverted(count, size) == count > size

\* produceChunks, line 204: the bucket is merged into a later range
MergeMore(count, size) == count < size

\* the half chunk size left out of the rounding
ChunkCntFloor(count, size) == count \div size

\* produceChunks, lines 155, 182 and 231: the number of sub-chunks asked for
ChunkCnt(count, size) == (count + size \div 2) \div size

\* chunk IDs counted from one
FirstChunkIDOne == 0 + 1

\* produceChunks, line 159: the first chunk ID of a run
FirstChunkID == 0

\* the final chunk tagged like the last bucket
TailBucketIDLast(bs) == Len(bs) - 1

\* produceChunks, line 251: the bucket ID of the final chunk
TailBucketID(bs) == Len(bs)

\* the keys a random split value of the range (lower, upper] can take
PivotKeys(lower, upper) ==
    LET lo == IF lower = NoBound THEN MinKey - 1 ELSE lower
    IN  IF lo < upper THEN (lo + 1)..upper ELSE {upper}

\* splitRangeByRandom: the possible results, each a sequence of <<lower,
\* upper>> pairs.  count <= 1 passes the range through; otherwise count
\* ranges tile it at count - 1 ascending random split values.
splitRangeByRandom(lower, upper, count) ==
    IF count <= 1
    THEN {<< <<lower, upper>> >>}
    ELSE LET P == PivotKeys(lower, upper)
             pivots == {s \in [1..(count - 1) -> P] :
                           \A k \in 1..(count - 2) : s[k] <= s[k + 1]}
         IN  {[k \in 1..count |->
                 << IF k = 1 THEN lower ELSE s[k - 1],
                    IF k = count THEN upper ELSE s[k] >>] : s \in pivots}

\* chunk.InitChunks: the ranges get consecutive IDs from id on and the
\* bucket ID (the returned next ID is id + Len(ranges))
InitChunks(ranges, id, bucketID) ==
    [k \in 1..Len(ranges) |->
        MkChunk(id + k - 1, bucketID, ranges[k][1], ranges[k][2])]

RECURSIVE ScratchRanges(_, _, _, _, _)
\* the loop of produceChunks, lines 202-243, as a function: the merged ranges
\* it emits from bucket idx on
ScratchRanges(bs, size, idx, latest, lower) ==
    IF idx >= Len(bs)
    THEN <<>>
    ELSE LET b == BucketAt(bs, idx)
             count == b.Count - latest
         IN  IF MergeMore(count, size)
             THEN ScratchRanges(bs, size, idx + 1, latest, lower)
             ELSE <<[BucketID |-> idx, lower |-> lower,
                     upper |-> b.UpperBound, count |-> count]>>
                  \o ScratchRanges(bs, size, idx + 1, b.Count, b.UpperBound)

\* the merged ranges of a run from scratch
ScratchBatches(bs, size) == ScratchRanges(bs, size, 0, 0, NoBound)

\* the IDs an index of the table may carry
IndexIDs == {1, 2}

\* the ID of the index the runs of the producer were constructed with
RunIndexID == CHOOSE id \in IndexIDs : \A other \in IndexIDs : id <= other

\* the checkpoints a run from scratch can leave behind: the index ID, and
\* the bucket ID and the upper bound of one of its chunks (the final chunk
\* has no upper bound)
Checkpoints(bs, size) ==
    LET rs == ScratchBatches(bs, size)
        inner == UNION {{[IndexID |-> RunIndexID, BucketID |-> rs[k].BucketID,
                          Upper |-> v] :
                            v \in PivotKeys(rs[k].lower, rs[k].upper)} :
                        k \in 1..Len(rs)}
    IN  IF rs = <<>>
        THEN {}
        ELSE inner \cup {[IndexID |-> RunIndexID,
                          BucketID |-> TailBucketID(bs), Upper |-> NoBound]}

\* a candidate index as init sees it: null or not, its ID, the statistics
\* GetBucketsInfo holds under its name (ok is the map lookup's second result)
\* and whether GetColumnsFromIndex finds columns for it
Candidate(null, id, ok, bucket, cols) ==
    [null |-> null, ID |-> id, ok |-> ok, bucket |-> bucket, cols |-> cols]

\* the one usable index of a constructed iterator
UsableIndex(bs) == Candidate(FALSE, RunIndexID, TRUE, bs, TRUE)

\* the non-decreasing lists of cumulative counts
CountLists ==
    UNION {{s \in [1..n -> CountValues] :
               \A k \in 1..(n - 1) : s[k] <= s[k + 1]} : n \in 1..MaxBuckets}

-----------------------------------------------------------------------------
(* The state after NewBucketIteratorWithCheckpoint has returned the iterator *)

\* the fields and locals as lines 51-57, 93 and 149-160 leave them
Started(bs, arg, size, sr) ==
    /\ buckets = bs
    /\ chunkSizeArg = arg
    /\ chunkSize = size
    /\ startRange = sr
    /\ chunksCh = <<>>
    /\ closed = FALSE
    /\ errCh = <<>>
    /\ chunks = Nil
    /\ nextChunk = 0
    /\ i = 0
    /\ latestCount = 0
    /\ lowerValues = NoBound
    /\ chunkID = FirstChunkID
    /\ dbFailed = FALSE
    /\ panicked = ""
    /\ sent = <<>>
    /\ returned = <<>>
    /\ closeCalls = 0
    /\ asked = <<>>
    /\ errSent = 0

Init ==
    \E counts \in CountLists, arg \in ChunkSizeArgs :
        LET bs == MkBuckets(counts)
            size == InitChunkSize(arg, bs)
        IN  \E sr \in {nilRange} \cup Checkpoints(bs, size) :
                /\ Started(bs, arg, size, sr)
                /\ indices = <<UsableIndex(bs)>>
                /\ indexID = RunIndexID
                /\ initErr = ""
                /\ pc = IF sr = nilRange THEN "loop" ELSE "resume"

-----------------------------------------------------------------------------
(* produceChunks *)

running == panicked = ""

\* one call of splitRangeByRandom: the bucket ID its chunks are tagged with,
\* the row count of the range and the number of sub-chunks asked for
SplitCall(bucketID, count, chunkCnt) ==
    [BucketID |-> bucketID, count |-> count, chunkCnt |-> chunkCnt]

\* s.chunksCh <- batch: blocks while the buffer is full
CanSend == Len(chunksCh) < ChannelBuffer

\* a queue that hands out the newest batch first
EnqueueFront(ch, batch) == <<batch>> \o ch

\* the channel's buffer after s.chunksCh <- batch
Enqueue(ch, batch) == Append(ch, batch)

Send(batch) ==
    /\ CanSend
    /\ chunksCh' = Enqueue(chunksCh, batch)
    /\ sent' = Append(sent, batch)

\* the error is sent and the return is missing
AbortNoReturn ==
    /\ Len(errCh) < 1
    /\ errCh' = Append(errCh, "err")
    /\ errSent' = errSent + 1
    /\ dbFailed' = TRUE
    /\ UNCHANGED <<construction, closeCalls, asked, buckets,
                   chunkSizeArg, chunkSize, startRange, chunksCh,
                   closed, chunks, nextChunk, pc, i, latestCount, lowerValues,
                   chunkID, panicked, sent, returned>>

\* s.errCh <- errors.Trace(err); return
Abort ==
    /\ Len(errCh) < 1
    /\ errCh' = Append(errCh, "err")
    /\ errSent' = errSent + 1
    /\ dbFailed' = TRUE
    /\ pc' = "aborted"
    /\ UNCHANGED <<construction, closeCalls, asked, buckets,
                   chunkSizeArg, chunkSize, startRange, chunksCh,
                   closed, chunks, nextChunk, i, latestCount, lowerValues,
                   chunkID, panicked, sent, returned>>

\* a run-time panic of the goroutine ends the process
Panic(who, failed) ==
    /\ panicked' = who
    /\ dbFailed' = failed
    /\ UNCHANGED <<construction, closeCalls, asked, errSent, buckets,
                   chunkSizeArg, chunkSize, startRange, chunksCh,
                   closed, errCh, chunks, nextChunk, pc, i, latestCount,
                   lowerValues, chunkID, sent, returned>>

\* lines 169-172: buckets[c.BucketID] is out of range for the bucket ID of
\* the final chunk
ResumeIndexPanic ==
    /\ running /\ pc = "resume"
    /\ startRange.BucketID >= Len(buckets)
    /\ Panic("produceChunks", dbFailed)

\* lines 169-172: the error of AnalyzeValuesFromBuckets is dropped and the
\* nil nextUpperValues is indexed
ResumeDecodePanic ==
    /\ running /\ pc = "resume"
    /\ startRange.BucketID < Len(buckets)
    /\ Panic("produceChunks", TRUE)

\* lines 176-187: GetRowCount fails, or splitRangeByRandom fails
ResumeFail ==
    /\ running /\ pc = "resume"
    /\ startRange.BucketID < Len(buckets)
    /\ Abort

\* lines 162-191: the in-progress range (startRange's upper bound, the upper
\* bound of its bucket] is counted, split and sent when it holds rows
ResumeFirstBatch ==
    /\ running /\ pc = "resume"
    /\ startRange.BucketID < Len(buckets)
    /\ \E count \in LiveCounts :
        IF count > 0
        THEN \E ranges \in splitRangeByRandom(
                     startRange.Upper,
                     BucketAt(buckets, startRange.BucketID).UpperBound,
                     ChunkCnt(count, chunkSize)) :
                /\ Send(InitChunks(ranges, chunkID, startRange.BucketID))
                /\ chunkID' = chunkID + Len(ranges)
                /\ asked' = Append(asked,
                                   SplitCall(startRange.BucketID, count,
                                             ChunkCnt(count, chunkSize)))
        ELSE UNCHANGED <<chunksCh, sent, chunkID, asked>>
    /\ pc' = "seed"
    /\ UNCHANGED <<construction, closeCalls, errSent, buckets,
                   chunkSizeArg, chunkSize, startRange, closed, errCh,
                   chunks, nextChunk, i, latestCount, lowerValues, dbFailed,
                   panicked, returned>>

\* line 194: buckets[beginBucket] is out of range when the checkpoint is in
\* the last bucket
ResumeSeedPanic ==
    /\ running /\ pc = "seed"
    /\ startRange.BucketID + 1 >= Len(buckets)
    /\ Panic("produceChunks", dbFailed)

\* lines 194-198: AnalyzeValuesFromBuckets fails
ResumeSeedFail ==
    /\ running /\ pc = "seed"
    /\ startRange.BucketID + 1 < Len(buckets)
    /\ Abort

\* lines 192-194: the loop is seeded after the checkpoint's bucket
ResumeSeed ==
    /\ running /\ pc = "seed"
    /\ startRange.BucketID + 1 < Len(buckets)
    /\ latestCount' = BucketAt(buckets, startRange.BucketID).Count
    /\ i' = startRange.BucketID + 1
    /\ lowerValues' = BucketAt(buckets, startRange.BucketID + 1).LowerBound
    /\ pc' = "loop"
    /\ UNCHANGED <<construction, closeCalls, asked, errSent, buckets,
                   chunkSizeArg, chunkSize, startRange, chunksCh,
                   closed, errCh, chunks, nextChunk, chunkID, dbFailed,
                   panicked, sent, returned>>

\* lines 203-207: the bucket does not fill a chunk yet
LoopMerge ==
    /\ running /\ pc = "loop" /\ i < Len(buckets)
    /\ MergeMore(BucketAt(buckets, i).Count - latestCount, chunkSize)
    /\ i' = i + 1
    /\ UNCHANGED <<construction, closeCalls, asked, errSent, buckets,
                   chunkSizeArg, chunkSize, startRange, chunksCh,
                   closed, errCh, chunks, nextChunk, pc, latestCount,
                   lowerValues, chunkID, dbFailed, panicked, sent, returned>>

\* lines 209-213 and 232-236: AnalyzeValuesFromBuckets or splitRangeByRandom
\* fails
LoopFail ==
    /\ running /\ pc = "loop" /\ i < Len(buckets)
    /\ ~MergeMore(BucketAt(buckets, i).Count - latestCount, chunkSize)
    /\ Abort

\* lines 209-242: the merged range (lowerValues, upper bound of bucket i] is
\* split, numbered and sent
LoopEmit ==
    /\ running /\ pc = "loop" /\ i < Len(buckets)
    /\ LET b == BucketAt(buckets, i)
           count == b.Count - latestCount
       IN  /\ ~MergeMore(count, chunkSize)
           /\ \E ranges \in splitRangeByRandom(lowerValues, b.UpperBound,
                                              ChunkCnt(count, chunkSize)) :
                /\ Send(InitChunks(ranges, chunkID, i))
                /\ chunkID' = chunkID + Len(ranges)
           /\ asked' = Append(asked,
                              SplitCall(i, count, ChunkCnt(count, chunkSize)))
           /\ latestCount' = b.Count
           /\ lowerValues' = b.UpperBound
    /\ i' = i + 1
    /\ UNCHANGED <<construction, closeCalls, errSent, buckets,
                   chunkSizeArg, chunkSize, startRange, closed, errCh,
                   chunks, nextChunk, pc, dbFailed, panicked, returned>>

\* a tail step that sends nil in place of the last chunk
LoopTailNil ==
    /\ running /\ pc = "loop" /\ i >= Len(buckets)
    /\ Send(Nil)
    /\ pc' = "sentinel"
    /\ UNCHANGED <<construction, closeCalls, asked, errSent, buckets,
                   chunkSizeArg, chunkSize, startRange, closed, errCh,
                   chunks, nextChunk, i, latestCount, lowerValues, chunkID,
                   dbFailed, panicked, returned>>

\* lines 245-253: the rest of the keys go into one last chunk
LoopTail ==
    /\ running /\ pc = "loop" /\ i >= Len(buckets)
    /\ IF lowerValues # NoBound
       THEN /\ Send(InitChunks(<< <<lowerValues, NoBound>> >>, chunkID,
                               TailBucketID(buckets)))
            /\ chunkID' = chunkID + 1
       ELSE UNCHANGED <<chunksCh, sent, chunkID>>
    /\ pc' = "sentinel"
    /\ UNCHANGED <<construction, closeCalls, asked, errSent, buckets,
                   chunkSizeArg, chunkSize, startRange, closed, errCh,
                   chunks, nextChunk, i, latestCount, lowerValues, dbFailed,
                   panicked, returned>>

\* line 256: s.chunksCh <- nil
SendSentinel ==
    /\ running /\ pc = "sentinel"
    /\ Send(Nil)
    /\ pc' = "done"
    /\ UNCHANGED <<construction, closeCalls, asked, errSent, buckets,
                   chunkSizeArg, chunkSize, startRange, closed, errCh,
                   chunks, nextChunk, i, latestCount, lowerValues, chunkID,
                   dbFailed, panicked, returned>>

produceChunks ==
    \/ ResumeIndexPanic \/ ResumeDecodePanic \/ ResumeFail \/ ResumeFirstBatch
    \/ ResumeSeedPanic \/ ResumeSeedFail \/ ResumeSeed
    \/ LoopMerge \/ LoopFail \/ LoopEmit \/ LoopTail \/ SendSentinel

-----------------------------------------------------------------------------
(* Next *)

\* line 72: the current batch is used up
Exhausted == Len(chunks) <= nextChunk

\* the value a receive from s.chunksCh yields: the oldest buffered batch,
\* or nil from a closed and drained channel
Received(ch) == IF ch = <<>> THEN Nil ELSE Head(ch)

\* a cursor that moves on by two
NextFromBatchSkip ==
    /\ running /\ ~Exhausted
    /\ returned' = Append(returned, Result("chunk", chunks[nextChunk + 1]))
    /\ nextChunk' = nextChunk + 2
    /\ UNCHANGED <<construction, closeCalls, asked, errSent, buckets,
                   chunkSizeArg, chunkSize, startRange, chunksCh,
                   closed, errCh, chunks, pc, i, latestCount, lowerValues,
                   chunkID, dbFailed, panicked, sent>>

\* lines 87-89 with a batch in hand
NextFromBatch ==
    /\ running /\ ~Exhausted
    /\ returned' = Append(returned, Result("chunk", chunks[nextChunk + 1]))
    /\ nextChunk' = nextChunk + 1
    /\ UNCHANGED <<construction, closeCalls, asked, errSent, buckets,
                   chunkSizeArg, chunkSize, startRange, chunksCh,
                   closed, errCh, chunks, pc, i, latestCount, lowerValues,
                   chunkID, dbFailed, panicked, sent>>

\* an error that stays in the channel when it is read
NextRecvErrSticky ==
    /\ running /\ Exhausted
    /\ errCh # <<>>
    /\ returned' = Append(returned, Result("err", NilChunk))
    /\ UNCHANGED <<construction, closeCalls, asked, errSent, buckets,
                   chunkSizeArg, chunkSize, startRange, chunksCh, errCh,
                   closed, chunks, nextChunk, pc, i, latestCount, lowerValues,
                   chunkID, dbFailed, panicked, sent>>

\* lines 74-75: the select takes the error
NextRecvErr ==
    /\ running /\ Exhausted
    /\ errCh # <<>>
    /\ errCh' = Tail(errCh)
    /\ returned' = Append(returned, Result("err", NilChunk))
    /\ UNCHANGED <<construction, closeCalls, asked, errSent, buckets,
                   chunkSizeArg, chunkSize, startRange, chunksCh,
                   closed, chunks, nextChunk, pc, i, latestCount, lowerValues,
                   chunkID, dbFailed, panicked, sent>>

\* lines 76 and 84-89: the select takes a batch and its first chunk is returned
NextRecvBatch ==
    /\ running /\ Exhausted
    /\ chunksCh # <<>>
    /\ Received(chunksCh) # Nil
    /\ chunks' = Received(chunksCh)
    /\ chunksCh' = Tail(chunksCh)
    /\ returned' = Append(returned, Result("chunk", Received(chunksCh)[1]))
    /\ nextChunk' = 1
    /\ UNCHANGED <<construction, closeCalls, asked, errSent, buckets,
                   chunkSizeArg, chunkSize, startRange, closed, errCh,
                   pc, i, latestCount, lowerValues, chunkID, dbFailed,
                   panicked, sent>>

\* lines 76-82: the select takes the sentinel, the channel is closed
NextRecvSentinel ==
    /\ running /\ Exhausted
    /\ chunksCh # <<>>
    /\ Received(chunksCh) = Nil
    /\ ~closed
    /\ chunks' = Nil
    /\ chunksCh' = Tail(chunksCh)
    /\ closed' = TRUE
    /\ returned' = Append(returned, Result("nil", NilChunk))
    /\ UNCHANGED <<construction, closeCalls, asked, errSent, buckets,
                   chunkSizeArg, chunkSize, startRange, errCh,
                   nextChunk, pc, i, latestCount, lowerValues, chunkID,
                   dbFailed, panicked, sent>>

\* lines 76-80: the receive from the closed channel yields nil and
\* close(s.chunksCh) runs a second time, which panics
NextClosePanic ==
    /\ running /\ Exhausted
    /\ closed /\ chunksCh = <<>>
    /\ Received(chunksCh) = Nil
    /\ chunks' = Nil
    /\ panicked' = "Next"
    /\ UNCHANGED <<construction, closeCalls, asked, errSent, buckets,
                   chunkSizeArg, chunkSize, startRange, chunksCh,
                   closed, errCh, nextChunk, pc, i, latestCount, lowerValues,
                   chunkID, dbFailed, sent, returned>>

NextCall ==
    \/ NextFromBatch \/ NextRecvErr \/ NextRecvBatch \/ NextRecvSentinel
    \/ NextClosePanic

-----------------------------------------------------------------------------
(* Close *)

\* a Close that empties the queue
CloseDrain ==
    /\ running /\ pc \notin {"new", "failed"}
    /\ closeCalls < MaxCloseCalls
    /\ closeCalls' = closeCalls + 1
    /\ chunksCh' = <<>>
    /\ UNCHANGED <<construction, asked, errSent, buckets, chunkSizeArg,
                   chunkSize, startRange, closed, errCh, chunks, nextChunk,
                   pc, i, latestCount, lowerValues, chunkID, dbFailed,
                   panicked, sent, returned>>

\* lines 145-146: the body of Close is empty; the call is only counted
Close ==
    /\ running /\ pc \notin {"new", "failed"}
    /\ closeCalls < MaxCloseCalls
    /\ closeCalls' = closeCalls + 1
    /\ UNCHANGED <<construction, asked, errSent, buckets, chunkSizeArg,
                   chunkSize, startRange, chunksCh, closed, errCh, chunks,
                   nextChunk, pc, i, latestCount, lowerValues, chunkID,
                   dbFailed, panicked, sent, returned>>

-----------------------------------------------------------------------------

Next == produceChunks \/ NextCall \/ Close

Spec == Init /\ [][Next]_vars

\* the scheduler runs the goroutine and the consumer keeps calling Next
FairSpec == Spec /\ WF_vars(produceChunks) /\ WF_vars(NextCall)

-----------------------------------------------------------------------------
(* Construction alone: init computes s.chunkSize from the argument *)

\* the cumulative row counts of a large table
BigCountValues == {0, 4000000, 12000000, 30000000}

BigCountLists ==
    UNION {{s \in [1..n -> BigCountValues] :
               \A k \in 1..(n - 1) : s[k] <= s[k + 1]} : n \in 1..MaxBuckets}

\* the result of the walk over the candidates when none is adopted
NoIndex == Candidate(TRUE, 0 - 1, FALSE, <<>>, FALSE)

RECURSIVE SelectIndexSkipMissing(_, _)
\* a walk that passes over a candidate without statistics
SelectIndexSkipMissing(cands, sr) ==
    IF cands = <<>>
    THEN [err |-> "", index |-> NoIndex]
    ELSE LET index == Head(cands)
         IN  IF index.null
             THEN SelectIndexSkipMissing(Tail(cands), sr)
             ELSE IF sr # nilRange /\ sr.IndexID # index.ID
             THEN SelectIndexSkipMissing(Tail(cands), sr)
             ELSE IF ~index.ok
             THEN SelectIndexSkipMissing(Tail(cands), sr)
             ELSE IF ~index.cols
             THEN SelectIndexSkipMissing(Tail(cands), sr)
             ELSE [err |-> "", index |-> index]

RECURSIVE SelectIndex(_, _)
\* init, lines 101-123: the walk over the candidates; err is the error of
\* line 110, index the candidate lines 119-121 adopt (NoIndex when none)
SelectIndex(cands, sr) ==
    IF cands = <<>>
    THEN [err |-> "", index |-> NoIndex]
    ELSE LET index == Head(cands)
         IN  IF index.null
             THEN SelectIndex(Tail(cands), sr)
             ELSE IF sr # nilRange /\ sr.IndexID # index.ID
             THEN SelectIndex(Tail(cands), sr)
             ELSE IF ~index.ok
             THEN [err |-> "NotFound", index |-> NoIndex]
             ELSE IF ~index.cols
             THEN SelectIndex(Tail(cands), sr)
             ELSE [err |-> "", index |-> index]

\* init, lines 101-127: the error init returns ("" when it adopts an index)
InitError(cands, sr) ==
    LET r == SelectIndex(cands, sr)
    IN  IF r.err # "" THEN r.err
        ELSE IF r.index.bucket = <<>> \/ ~r.index.cols THEN "NotFound"
        ELSE ""

\* the fields as lines 51-57 set them, before bs.init runs; the table has
\* one usable index
InitNew ==
    \E counts \in BigCountLists, arg \in {0 - 1, 0, 100} :
        /\ Started(<<>>, arg, arg, nilRange)
        /\ indices = <<UsableIndex(MkBuckets(counts))>>
        /\ indexID = 0
        /\ initErr = ""
        /\ pc = "new"

\* lines 59-61: bs.init fails, nil and the error are returned and no
\* goroutine is started
ConstructFail ==
    /\ pc = "new"
    /\ InitError(indices, startRange) # ""
    /\ initErr' = InitError(indices, startRange)
    /\ pc' = "failed"
    /\ UNCHANGED <<indices, indexID, closeCalls, asked, errSent, buckets,
                   chunkSizeArg, chunkSize, startRange, chunksCh, closed,
                   errCh, chunks, nextChunk, i, latestCount, lowerValues,
                   chunkID, dbFailed, panicked, sent, returned>>

\* lines 59-64: bs.init adopts an index and sets s.chunkSize, the goroutine
\* starts and the iterator is returned
Construct ==
    /\ pc = "new"
    /\ InitError(indices, startRange) = ""
    /\ LET index == SelectIndex(indices, startRange).index
       IN  /\ buckets' = index.bucket
           /\ indexID' = index.ID
           /\ chunkSize' = InitChunkSize(chunkSize, index.bucket)
    /\ pc' = IF startRange = nilRange THEN "loop" ELSE "resume"
    /\ UNCHANGED <<indices, initErr, closeCalls, asked, errSent, chunkSizeArg,
                   startRange, chunksCh, closed, errCh, chunks, nextChunk, i,
                   latestCount, lowerValues, chunkID, dbFailed, panicked,
                   sent, returned>>

ConstructSpec == InitNew /\ [][Construct]_vars

\* the statistics of an index that has some, and the chunk size asked for,
\* in the runs that start with the choice of the index
SelectCounts == <<100, 100, 200>>
SelectChunkSize == SelectCounts[1]

\* the candidates: a null entry, or an index with or without statistics and
\* with or without columns
Candidates ==
    {NoIndex} \cup
    {Candidate(FALSE, id, ok, IF ok THEN MkBuckets(SelectCounts) ELSE <<>>,
               cols) : id \in IndexIDs, ok \in BOOLEAN, cols \in BOOLEAN}

CandidateLists == UNION {[1..n -> Candidates] : n \in 0..MaxIndexes}

\* no checkpoint, or for either index ID the checkpoint of the last chunk of
\* a batch or of the final chunk
SelectCheckpoints ==
    {nilRange} \cup
    {[cp EXCEPT !.IndexID = id] :
        id \in IndexIDs,
        cp \in {c \in Checkpoints(MkBuckets(SelectCounts), SelectChunkSize) :
                  \/ c.Upper = NoBound
                  \/ c.Upper = UpperBoundOf(c.BucketID)}}

InitSelect ==
    \E cands \in CandidateLists, sr \in SelectCheckpoints :
        /\ Started(<<>>, SelectChunkSize, SelectChunkSize, sr)
        /\ indices = cands
        /\ indexID = 0
        /\ initErr = ""
        /\ pc = "new"

\* construction with the choice of the index, then the run of the iterator
SelectSpec == InitSelect /\ [][ConstructFail \/ Construct \/ Next]_vars

-----------------------------------------------------------------------------
(* Derived histories *)

RECURSIVE Flatten(_)
Flatten(batches) ==
    IF batches = <<>> THEN <<>> ELSE Head(batches) \o Flatten(Tail(batches))

\* the chunks the producer has sent, in the order it generated them
SentChunks == Flatten(sent)

\* the chunks the Next calls have returned, in call order
ReturnedChunks ==
    LET rs == SelectSeq(returned, LAMBDA r : r.kind = "chunk")
    IN  [k \in 1..Len(rs) |-> rs[k].chunk]

IsPrefix(a, b) ==
    /\ Len(a) <= Len(b)
    /\ \A k \in 1..Len(a) : a[k] = b[k]

Last(seq) == seq[Len(seq)]

FromScratch == startRange = nilRange

\* the producer has sent the sentinel as its last item and returned
ProducerDone == pc = "done" /\ sent # <<>> /\ Last(sent) = Nil

\* the chunks of the sequence tile the whole key space in order
TilesKeySpace(cs) ==
    /\ cs # <<>>
    /\ cs[1].lower = NoBound
    /\ Last(cs).upper = NoBound
    /\ \A k \in 1..(Len(cs) - 1) : cs[k + 1].lower = cs[k].upper
    /\ \A key \in KeysOf(buckets) :
          Cardinality({k \in 1..Len(cs) : InChunk(key, cs[k])}) = 1

-----------------------------------------------------------------------------
(* Claims *)

\* C1 (as claimed): in a run from scratch that reached the sentinel without
\* a database error, the chunks sent before the sentinel tile the key space:
\* the first has no lower bound, the last no upper bound, each lower bound is
\* the previous upper bound, and every key lies in exactly one chunk.
C1_Coverage ==
    (FromScratch /\ ProducerDone /\ ~dbFailed) => TilesKeySpace(SentChunks)

\* C1 (what the code does keep): the same tiling in the runs from scratch
\* in which at least one bucket reached the chunk size.
C1_CoverageWhenEmitted ==
    (FromScratch /\ ProducerDone /\ SentChunks # <<>>)
        => TilesKeySpace(SentChunks)

\* C2: the chunks returned by the Next calls so far are a prefix of the
\* chunks in the order the producer generated them, so batches come out
\* whole, in order, with no chunk repeated or skipped.
C2_DeliveryOrder == IsPrefix(ReturnedChunks, SentChunks)

\* C2 witness: chunks of two different batches have been returned while the
\* producer is still at work.
C2_Witness ==
    /\ pc \in {"loop", "sentinel"}
    /\ \E j, k \in 1..Len(ReturnedChunks) :
          ReturnedChunks[j].BucketID # ReturnedChunks[k].BucketID
    /\ \E j, k \in 1..Len(ReturnedChunks) :
          j # k /\ ReturnedChunks[j].BucketID = ReturnedChunks[k].BucketID

\* C3 (as claimed): once a Next call has returned (nil, nil), every later
\* Next call returns (nil, nil) too and none panics.
C3_NextAfterCompletion ==
    \A k \in 1..Len(returned) :
        returned[k].kind = "nil" =>
            /\ panicked # "Next"
            /\ \A j \in k..Len(returned) : returned[j].kind = "nil"

\* C4 (as claimed): at most one Next call returns an error, and no Next call
\* after it returns a chunk.
C4_SingleErrorDelivery ==
    /\ Cardinality({k \in 1..Len(returned) : returned[k].kind = "err"}) <= 1
    /\ \A j, k \in 1..Len(returned) :
          (j < k /\ returned[j].kind = "err") => returned[k].kind # "chunk"

\* every generated chunk was returned and then a Next call returned (nil, nil)
CleanCompletion ==
    /\ ProducerDone
    /\ ReturnedChunks = SentChunks
    /\ returned # <<>>
    /\ Last(returned).kind = "nil"

\* C5 (as claimed): with the producer and the consumer scheduled fairly, a
\* run in which no database call fails reaches clean completion: the
\* sentinel is sent last, every chunk is returned, and a Next call returns
\* (nil, nil).
C5_CleanCompletion == <>(dbFailed \/ CleanCompletion)

\* C5 restricted to the runs from scratch.
C5_CleanCompletionFromScratch == FromScratch => <>(dbFailed \/ CleanCompletion)

\* C6: the chunks sent so far carry the IDs 0, 1, 2, ... in order, in runs
\* from scratch and in resumed runs, across batches and for the final chunk.
C6_MonotonicChunkIDs ==
    \A k \in 1..Len(SentChunks) : SentChunks[k].ID = k - 1

\* C6 witness: a resumed run has sent its first batch, a later batch and the
\* final chunk.
C6_Witness ==
    /\ ~FromScratch
    /\ ProducerDone
    /\ Len(sent) >= 4
    /\ Last(SentChunks).BucketID = TailBucketID(buckets)

\* C7 (as claimed): a resumed run that re-split the in-progress range and
\* reached the sentinel covers every key above the checkpoint's upper bound
\* exactly once.
C7_ResumptionEquivalence ==
    (/\ ~FromScratch
     /\ ProducerDone
     /\ SentChunks[1].BucketID = startRange.BucketID)
        => \A key \in KeysOf(buckets) :
              key > startRange.Upper =>
                 Cardinality({k \in 1..Len(SentChunks) :
                                 InChunk(key, SentChunks[k])}) = 1

Max(a, b) == IF a >= b THEN a ELSE b

\* C8 (as claimed): when no chunk size is requested, construction sets the
\* chunk size to max(totalRows / 10000, 2 x SplitThreshold), totalRows being
\* the cumulative count of the last bucket.
C8_DefaultChunkSize ==
    (pc \notin {"new", "failed"} /\ chunkSizeArg <= 0)
        => chunkSize = Max(Last(buckets).Count \div 10000, 2 * SplitThreshold)

\* the scenario of C9: counts 100, 250, 400, chunk size 100, from scratch,
\* run to the sentinel
C9_Scenario ==
    /\ [k \in 1..Len(buckets) |-> buckets[k].Count] = <<100, 250, 400>>
    /\ chunkSize = 100
    /\ FromScratch
    /\ ProducerDone

\* C9 (as claimed): the scenario sends exactly 5 chunks, IDs 0..4, bucket
\* IDs 0, 1, 1, 2, 2.
C9_FiveChunks ==
    C9_Scenario =>
        /\ [k \in 1..Len(SentChunks) |-> SentChunks[k].ID] = <<0, 1, 2, 3, 4>>
        /\ [k \in 1..Len(SentChunks) |-> SentChunks[k].BucketID]
               = <<0, 1, 1, 2, 2>>

\* C9 (amended): the scenario sends exactly 6 chunks, IDs 0..5, bucket IDs
\* 0, 1, 1, 2, 2, 3: the five sub-chunks and then the final chunk, tagged
\* with len(buckets).
C9_SixChunks ==
    C9_Scenario =>
        /\ [k \in 1..Len(SentChunks) |-> SentChunks[k].ID]
               = <<0, 1, 2, 3, 4, 5>>
        /\ [k \in 1..Len(SentChunks) |-> SentChunks[k].BucketID]
               = <<0, 1, 1, 2, 2, 3>>
        /\ Last(SentChunks).upper = NoBound

\* C9 witness: the scenario has run to the sentinel and the consumer has
\* pulled every chunk.
C9_Witness == C9_Scenario /\ Len(ReturnedChunks) = Len(SentChunks)

ZeroRows == \A k \in 1..Len(buckets) : buckets[k].Count = 0

\* what a run over a zero-row table may show at any time: no error, no
\* panic of the producer, at most one chunk sent, and Next results that are
\* at most one chunk followed by (nil, nil)
C10_Safe ==
    /\ ~dbFailed /\ errCh = <<>> /\ panicked # "produceChunks"
    /\ Len(SentChunks) <= 1
    /\ \A k \in 1..Len(returned) : returned[k].kind # "err"
    /\ Len(ReturnedChunks) <= 1
    /\ \A k \in 1..Len(returned) :
          returned[k].kind = "chunk" => k = 1
    /\ (pc = "done" => Last(sent) = Nil)

\* C10: a run from scratch over buckets that all count 0 rows never fails,
\* sends at most one chunk, and (scheduled fairly) sends the sentinel, after
\* which a Next call returns (nil, nil).
C10_ZeroRowTable ==
    (ZeroRows /\ FromScratch) => ([]C10_Safe /\ <>CleanCompletion)

\* C10 witness: over a zero-row table with several buckets the sentinel was
\* sent and Next returned (nil, nil).
C10_Witness ==
    /\ ZeroRows /\ FromScratch /\ Len(buckets) >= 2
    /\ CleanCompletion

\* a candidate the walk does not pass over for being null or for not being
\* the checkpoint's index
Eligible(k) ==
    /\ ~indices[k].null
    /\ (startRange = nilRange \/ indices[k].ID = startRange.IndexID)

\* an eligible candidate that ends the walk: it lacks statistics, or it has
\* statistics and columns
Deciding(k) == Eligible(k) /\ (~indices[k].ok \/ indices[k].cols)

\* C11: after construction, with D the first eligible candidate that lacks
\* statistics or has statistics and columns: if D exists and has statistics
\* it is the adopted index (its ID and buckets are the iterator's, whatever
\* comes later in the list) and there is no error; otherwise construction
\* failed with NotFound, and after a failure no iterator field is set,
\* nothing is ever sent or returned and the producer never runs.
C11_IndexSelection ==
    pc # "new" =>
        LET ds == {k \in 1..Len(indices) : Deciding(k)}
            adopts == ds # {} /\
                      indices[CHOOSE k \in ds : \A j \in ds : k <= j].ok
        IN  IF adopts
            THEN LET D == CHOOSE k \in ds : \A j \in ds : k <= j
                 IN  /\ initErr = "" /\ pc # "failed"
                     /\ indexID = indices[D].ID
                     /\ buckets = indices[D].bucket
            ELSE /\ initErr = "NotFound" /\ pc = "failed"
                 /\ buckets = <<>> /\ indexID = 0
                 /\ sent = <<>> /\ returned = <<>> /\ chunksCh = <<>>
                 /\ errCh = <<>> /\ errSent = 0 /\ closeCalls = 0
                 /\ chunkID = FirstChunkID /\ i = 0

\* C11 witness: the first candidate has statistics but no columns and was
\* passed over, the second was adopted, and its iterator ran to the end.
C11_Witness ==
    /\ Len(indices) = 2
    /\ ~indices[1].null /\ indices[1].ok /\ ~indices[1].cols
    /\ indices[1].ID # indices[2].ID
    /\ indexID = indices[2].ID
    /\ ProducerDone

\* C11 second case: the first candidate lacks statistics, the second is
\* usable, and construction failed.
C11_WitnessNotFound ==
    /\ Len(indices) = 2
    /\ Eligible(1) /\ ~indices[1].ok
    /\ Eligible(2) /\ indices[2].ok /\ indices[2].cols
    /\ pc = "failed"

\* the producer is suspended in a send on the full chunksCh: the send of the
\* final chunk or of the sentinel
BlockedOnSend ==
    /\ running /\ ~CanSend
    /\ \/ pc = "sentinel"
       \/ pc = "loop" /\ i >= Len(buckets) /\ lowerValues # NoBound

\* C12: a Close call leaves the queue, the error channel, the consumer's
\* batch and cursor and the producer's state as they are, so a producer
\* blocked in a send on the full queue is still blocked after it; and a
\* blocked producer stays blocked over every step that is not a Next call.
C12_CloseNoOp ==
    /\ [][closeCalls' # closeCalls =>
            /\ UNCHANGED <<chunksCh, closed, errCh, chunks, nextChunk, pc, i,
                           latestCount, lowerValues, chunkID, dbFailed,
                           panicked, sent, returned, asked, errSent>>
            /\ (BlockedOnSend => BlockedOnSend')]_vars
    /\ [][(BlockedOnSend /\ returned' = returned /\ panicked' = panicked)
            => (BlockedOnSend' /\ pc' = pc /\ sent' = sent)]_vars

\* C12 witness: Close was called and the producer is blocked in a send.
C12_Witness == closeCalls > 0 /\ BlockedOnSend

\* C13: in the loop, a step that moves on from bucket i with delta =
\* buckets[i].Count - latestCount sends a batch exactly when delta >=
\* chunkSize; the splitter is then asked for (delta + chunkSize / 2) /
\* chunkSize sub-chunks (integer divisions), the batch is tagged i and
\* latestCount becomes buckets[i].Count; otherwise nothing is sent and
\* latestCount stays.  A run from scratch starts with latestCount = 0.
C13_MergeAndRounding ==
    /\ [][(pc = "loop" /\ i < Len(buckets) /\ i' = i + 1) =>
            LET delta == BucketAt(buckets, i).Count - latestCount
            IN  IF delta >= chunkSize
                THEN /\ \E n \in {Len(sent')} \cap DOMAIN sent' :
                           /\ sent' = Append(sent, sent'[n])
                           /\ \A k \in 1..Len(sent'[n]) :
                                 sent'[n][k].BucketID = i
                     /\ asked' = Append(asked,
                           SplitCall(i, delta,
                               (delta + chunkSize \div 2) \div chunkSize))
                     /\ latestCount' = BucketAt(buckets, i).Count
                ELSE /\ sent' = sent
                     /\ asked' = asked
                     /\ latestCount' = latestCount]_vars
    /\ []((FromScratch /\ pc = "loop" /\ asked = <<>>) => latestCount = 0)

\* C13 witness: from scratch, bucket 0 was merged into the range that bucket
\* 1 emitted in three sub-chunks, and bucket 2 was merged after it.
C13_Witness ==
    /\ FromScratch /\ pc = "loop" /\ i = 3
    /\ Len(asked) = 1
    /\ asked[1].BucketID = 1 /\ asked[1].chunkCnt = 3
    /\ Len(sent) = 1 /\ Len(sent[1]) = 3

\* the splitRangeByRandom calls of the loop (a resumed run may have made one
\* call before the loop, for the checkpoint's bucket)
LoopCalls ==
    SelectSeq(asked, LAMBDA c : FromScratch \/ c.BucketID > startRange.BucketID)

\* C14: when the producer has sent the sentinel: if the run is from scratch
\* and no merged range was emitted, the sentinel is the only item sent;
\* otherwise the item before the sentinel is a batch of one chunk without
\* upper bound, tagged len(buckets), whose lower bound is the upper bound of
\* the last range the loop emitted (in a resumed run whose loop emitted
\* none, the seeded lower bound), and no other chunk carries that tag.
C14_FinalTail ==
    ProducerDone =>
        IF FromScratch /\ asked = <<>>
        THEN sent = <<Nil>>
        ELSE /\ Len(sent) = Len(asked) + 2
             /\ LET tail == sent[Len(sent) - 1]
                IN  /\ Len(tail) = 1
                    /\ tail[1].BucketID = Len(buckets)
                    /\ tail[1].upper = NoBound
                    /\ tail[1].lower =
                         IF LoopCalls # <<>>
                         THEN Last(sent[Len(sent) - 2]).upper
                         ELSE BucketAt(buckets,
                                       startRange.BucketID + 1).LowerBound
             /\ Cardinality({k \in 1..Len(SentChunks) :
                               SentChunks[k].BucketID = Len(buckets)}) = 1

\* C14 witness: a run from scratch emitted two merged ranges, the final
\* chunk and the sentinel.
C14_Witness == FromScratch /\ ProducerDone /\ Len(asked) = 2

\* C14, the other cases reached: only the sentinel was sent; a resumed run
\* sent the final chunk from the seeded bound.
C14_WitnessSentinelOnly == FromScratch /\ ProducerDone /\ Len(sent) = 1
C14_WitnessResumed == ~FromScratch /\ ProducerDone /\ LoopCalls = <<>>

\* C15: the producer sends at most one error; when it sends it the slot of
\* errCh is free, so the send does not block; and once it has sent an error
\* it does nothing more: no batch and no sentinel is sent afterwards and
\* its position and locals stay as they are.
C15_ProducerAbort ==
    /\ [](errSent <= 1 /\ Len(errCh) <= 1 /\ (errSent = 0 => errCh = <<>>))
    /\ [][errSent' # errSent =>
            (errSent = 0 /\ errCh = <<>> /\ errCh' = <<"err">>)]_vars
    /\ [][errSent >= 1 =>
            UNCHANGED <<sent, errSent, pc, i, latestCount, lowerValues,
                        chunkID, asked>>]_vars
    /\ [](errSent >= 1 => \A k \in 1..Len(sent) : sent[k] # Nil)

\* C15 witness: the producer sent two batches and then an error, and the
\* consumer went on to take the error and a chunk.
C15_Witness ==
    /\ errSent = 1 /\ Len(sent) = 2
    /\ \E k \in 1..Len(returned) : returned[k].kind = "err"
    /\ ReturnedChunks # <<>>

\* a Next call has returned the production error
ErrReturned == \E k \in 1..Len(returned) : returned[k].kind = "err"

\* the batches sent before the failure have all been received and used up
Drained == chunksCh = <<>> /\ Exhausted

\* C16: once a Next call has returned the error, errCh is empty, the
\* producer has stopped and no sentinel was or will be sent, and the channel
\* is not closed; so when the buffered batches are drained no Next call can
\* proceed, and none ever returns again.
C16_NextAfterError ==
    /\ [](ErrReturned =>
            /\ errCh = <<>> /\ pc = "aborted" /\ ~closed
            /\ \A k \in 1..Len(sent) : sent[k] # Nil
            /\ (Drained => ~ENABLED NextCall))
    /\ [][(ErrReturned /\ Drained) =>
            (returned' = returned /\ panicked' = panicked /\ Drained')]_vars

\* C16 witness: the error was returned first, then the chunk of a batch
\* buffered before the failure, and now the queue is drained.
C16_Witness ==
    /\ Len(returned) >= 2
    /\ returned[1].kind = "err"
    /\ Last(returned).kind = "chunk"
    /\ Drained

\* C17: a Next call that finds the cursor below the length of the current
\* batch returns the chunk at the cursor, moves the cursor on by one and
\* leaves the queue, the error channel and the batch alone; a Next call
\* that returns with the cursor at the end has received from one of the
\* channels, and when it received a batch it returns that batch's chunk 0
\* and leaves the cursor at 1; nothing is received from either channel
\* unless the cursor is at the end.
C17_NextWithoutReceive ==
    /\ [][returned' # returned =>
            IF ~Exhausted
            THEN /\ returned' =
                       Append(returned, Result("chunk", chunks[nextChunk + 1]))
                 /\ nextChunk' = nextChunk + 1
                 /\ UNCHANGED <<chunksCh, errCh, chunks, closed>>
            ELSE /\ \/ /\ chunksCh # <<>> /\ chunksCh' = Tail(chunksCh)
                       /\ errCh' = errCh
                    \/ /\ errCh # <<>> /\ errCh' = Tail(errCh)
                       /\ chunksCh' = chunksCh
                 /\ (Last(returned').kind = "chunk" =>
                       /\ chunks' = Head(chunksCh)
                       /\ returned' =
                             Append(returned, Result("chunk", chunks'[1]))
                       /\ nextChunk' = 1)]_vars
    /\ [][(Len(chunksCh') < Len(chunksCh) \/ Len(errCh') < Len(errCh))
            => Exhausted]_vars

\* C17 witness: the consumer is in the middle of a batch of three chunks
\* while another batch waits in the queue.
C17_Witness ==
    /\ Len(chunks) = 3 /\ nextChunk = 2
    /\ chunksCh # <<>>
    /\ Len(ReturnedChunks) >= 2

\* the checkpoint's bucket is one at which the run from scratch emits a batch
CheckpointAtBatch ==
    /\ ~FromScratch
    /\ \E k \in 1..Len(ScratchBatches(buckets, chunkSize)) :
          ScratchBatches(buckets, chunkSize)[k].BucketID = startRange.BucketID

\* the split calls of the run from scratch for the buckets after the
\* checkpoint's
LaterScratchCalls ==
    LET later == SelectSeq(ScratchBatches(buckets, chunkSize),
                           LAMBDA r : r.BucketID > startRange.BucketID)
    IN  [k \in 1..Len(later) |->
            SplitCall(later[k].BucketID, later[k].count,
                      ChunkCnt(later[k].count, chunkSize))]

\* the resumed run has ended with the sentinel, after at most one first batch
\* tagged with the checkpoint's bucket, the batches of the run from scratch
\* for the later buckets, and the final chunk
Replayed ==
    /\ ProducerDone
    /\ LoopCalls = LaterScratchCalls
    /\ LET first == SelectSeq(asked,
                              LAMBDA c : c.BucketID = startRange.BucketID)
       IN  /\ Len(first) <= 1
           /\ \A k \in 1..Len(first) : first[k].count > 0
           /\ asked = first \o LoopCalls
    /\ Len(sent) = Len(asked) + 2
    /\ \A k \in 1..Len(asked) :
          /\ sent[k] # Nil
          /\ \A n \in 1..Len(sent[k]) : sent[k][n].BucketID = asked[k].BucketID
    /\ LET tail == sent[Len(sent) - 1]
       IN  /\ Len(tail) = 1
           /\ tail[1].BucketID = TailBucketID(buckets)
           /\ tail[1].upper = NoBound

\* C18 (as claimed): a run resumed from a checkpoint whose bucket b is one at
\* which the run from scratch emits a batch, and in which no database call
\* fails, sends at most one first batch tagged b (one when the in-progress
\* range holds rows), then the batches of the run from scratch for the
\* buckets after b (same buckets, tags, deltas and sub-chunk counts), then
\* the final chunk and the sentinel.
C18_ResumeReplay == CheckpointAtBatch => <>(dbFailed \/ Replayed)

\* C18 restricted to the checkpoints before the last bucket.
C18_ResumeReplayBeforeLast ==
    (CheckpointAtBatch /\ startRange.BucketID + 1 < Len(buckets))
        => <>(dbFailed \/ Replayed)

\* C19 (as claimed): a run resumed from a checkpoint whose bucket ID is in
\* 0..len(buckets) never indexes the bucket list out of range: the producer
\* does not die of an index panic while no database call has failed.
C19_ResumeInBounds ==
    (~FromScratch /\ startRange.BucketID \in 0..Len(buckets))
        => ~(panicked = "produceChunks" /\ ~dbFailed)

\* C19, second half (as claimed): with fair scheduling such a run ends with
\* the sentinel or with one error pushed.
C19_ResumeEnds ==
    (~FromScratch /\ startRange.BucketID \in 0..Len(buckets))
        => <>(ProducerDone \/ (pc = "aborted" /\ errSent = 1))

\* a Next call has returned (nil, nil)
NilReturned == \E k \in 1..Len(returned) : returned[k].kind = "nil"

\* C20: up to and including the first Next call that returns (nil, nil):
\* the channel is closed only when the producer has sent the sentinel as
\* its last item and returned; every send happens on an open channel that
\* is still open afterwards; the channel is closed by the step that returns
\* the first (nil, nil), and a second close comes only after that return.
C20_NoSendOnClosed ==
    /\ [](closed => (ProducerDone /\ NilReturned))
    /\ []((panicked = "Next") => (closed /\ NilReturned))
    /\ [][sent' # sent => (~closed /\ ~closed')]_vars
    /\ [][closed' # closed =>
            /\ ~closed /\ closed'
            /\ ~NilReturned
            /\ returned' = Append(returned, Result("nil", NilChunk))
            /\ sent' = sent /\ pc' = pc]_vars

\* C20 witness: the channel was closed by the first (nil, nil) after chunks
\* of several batches were returned, and no goroutine has panicked.
C20_Witness ==
    /\ closed /\ ProducerDone
    /\ panicked = ""
    /\ Len(sent) >= 3
    /\ ReturnedChunks = SentChunks
    /\ Last(returned).kind = "nil"

=============================================================================
